---- MODULE Spec2Model ----
(***************************************************************************)
(* The solving pipeline of tsp_ui.py: euclidean_distance,                  *)
(* total_route_distance, nearest_neighbor_tour, two_opt and solve_tsp.     *)
(*                                                                         *)
(* Conventions.  A city is a pair <<x, y>> of integers.  `cities' is a     *)
(* sequence (TLA+ index k+1 holds Python index k).  A route is a sequence  *)
(* of Python (0-based) city indices.  Python floats are rendered in fixed  *)
(* point: a length is an integer number of 1/Scale units, math.hypot       *)
(* rounds to the nearest unit (as the double rounds to the nearest         *)
(* representable value) and sums are exact (the rounding of each float     *)
(* addition is not represented).                                           *)
(***************************************************************************)
EXTENDS Integers, Sequences, FiniteSets

\* ----------------------------------------------------------------- bounds
MaxN == 6        \* most cities in an input
MaxFreeN == 3    \* inputs of up to this many cities are arbitrary sequences
NPts == 9        \* how many points of the plane cities are placed on
Width == 3       \* the points are taken column by column, each Width high
Scale == 1000    \* fixed-point units per unit of distance

\* ------------------------------------------------------ program constants
StartsCap == 5   \* min(5, n)
Inf == -1        \* float("inf"): compared only through FloatLt
None == <<-1>>   \* Python None for a route not yet assigned

VARIABLES
    cities,          \* the argument of solve_tsp / two_opt
    pc,              \* position in the running function
    \* solve_tsp
    start_indices,   \* the shuffled indices cut to starts_to_try
    k,               \* how many elements of start_indices the for loop has taken
    route, best_route, best_distance,
    result,          \* the returned pair <<route, length>>
    calls,           \* how often nearest_neighbor_tour and two_opt were called
    nn_route,        \* what nearest_neighbor_tour returned in this iteration
    \* two_opt (o_ marks its locals where solve_tsp uses the same name)
    o_input,         \* the route argument as passed
    o_route, o_best_route, o_best_distance, improved, i, j,
    scans            \* how many times the while body was entered

solveVars == <<start_indices, k, route, best_route, best_distance, result, calls,
               nn_route>>
optVars == <<o_input, o_route, o_best_route, o_best_distance, improved, i, j, scans>>
vars == <<cities, pc, solveVars, optVars>>

\* ---------------------------------------------------------------- helpers
\* the points in lexicographic order: (0, 0), (0, 1), ..., (1, 0), ...
Pool == [q \in 1 .. NPts |-> <<(q - 1) \div Width, (q - 1) % Width>>]

Grid == {Pool[q] : q \in 1 .. NPts}

\* list(range(n))
ListRange(n) == [p \in 1 .. n |-> p - 1]

IsPermutation(t, n) == Len(t) = n /\ \A c \in 0 .. n - 1 : \E p \in 1 .. n : t[p] = c

RECURSIVE Orders(_)
\* the sequences that hold each element of S once
Orders(S) ==
    IF S = {} THEN {<< >>}
    ELSE UNION {{<<x>> \o t : t \in Orders(S \ {x})} : x \in S}

Perms(n) == Orders(0 .. n - 1)

PermsOf == [n \in 0 .. MaxN |-> Perms(n)]

RECURSIVE Bisect(_, _, _)
\* the largest r in lo..hi with r * r <= x
Bisect(x, lo, hi) ==
    IF lo = hi THEN lo
    ELSE LET mid == (lo + hi + 1) \div 2
         IN IF mid * mid <= x THEN Bisect(x, mid, hi) ELSE Bisect(x, lo, mid - 1)

ISqrt(x) == Bisect(x, 0, 46340)

\* sqrt(d2) in units of 1/Scale, rounded to nearest
DistOf == [d2 \in 0 .. (((NPts - 1) \div Width) * ((NPts - 1) \div Width)
                          + (Width - 1) * (Width - 1)) |->
              (ISqrt(4 * d2 * Scale * Scale) + 1) \div 2]

hypot(dx, dy) == DistOf[dx * dx + dy * dy]

\* a < b on floats that may be float("inf")
FloatLt(a, b) == IF a = Inf THEN FALSE ELSE IF b = Inf THEN TRUE ELSE a < b

\* ----------------------------------------------------------- the geometry
euclidean_distance(a, b) == hypot(a[1] - b[1], a[2] - b[2])

RECURSIVE SumEdges(_, _, _)
\* the for loop of total_route_distance from position p (0-based) on
SumEdges(r, cs, p) ==
    IF p >= Len(r) THEN 0
    ELSE euclidean_distance(cs[r[p + 1] + 1], cs[r[((p + 1) % Len(r)) + 1] + 1])
         + SumEdges(r, cs, p + 1)

total_route_distance(r, cs) == IF Len(r) <= 1 THEN 0 ELSE SumEdges(r, cs, 0)

\* ------------------------------------------------- nearest_neighbor_tour
\* faulty variant: unvisited.remove(start_index) is forgotten
InitUnvisitedKeepsStart(n, start_index) == 0 .. n - 1

\* unvisited = set(range(n)); unvisited.remove(start_index)
InitUnvisited(n, start_index) == (0 .. n - 1) \ {start_index}

\* faulty variant: the set is iterated from its highest element down
SetIterAfter(x, y) == x >= y

\* Whether x comes no later than y when a set of small non-negative ints is
\* iterated: CPython stores int x at slot hash(x) & mask = x of a table that
\* set(range(n)) keeps larger than n, and iterates the slots in order.
SetIterBefore(x, y) == x <= y

\* faulty variant: max instead of min
farthest_city(cs, unvisited, current) ==
    LET key(c) == euclidean_distance(cs[current + 1], cs[c + 1])
    IN CHOOSE c \in unvisited :
           \A u \in unvisited : key(c) > key(u) \/ (key(c) = key(u) /\ c <= u)

\* min(unvisited, key=lambda j: euclidean_distance(cities[current], cities[j])):
\* the first element, in iteration order, whose key is minimal
next_city(cs, unvisited, current) ==
    LET key(c) == euclidean_distance(cs[current + 1], cs[c + 1])
    IN CHOOSE c \in unvisited :
           \A u \in unvisited :
               key(c) < key(u) \/ (key(c) = key(u) /\ SetIterBefore(c, u))

RECURSIVE NNLoop(_, _, _, _)
\* the while loop of nearest_neighbor_tour
NNLoop(cs, tour, unvisited, current) ==
    IF unvisited = {} THEN tour
    ELSE LET nc == next_city(cs, unvisited, current)
         IN NNLoop(cs, Append(tour, nc), unvisited \ {nc}, nc)

nearest_neighbor_tour(cs, start_index) ==
    IF Len(cs) = 0 THEN << >>
    ELSE NNLoop(cs, <<start_index>>, InitUnvisited(Len(cs), start_index), start_index)

RECURSIVE NNLoopAnyOrder(_, _, _, _)
\* the tours the while loop can build when min may meet the elements of
\* unvisited in any order (any minimiser can be the first one met)
NNLoopAnyOrder(cs, tour, unvisited, current) ==
    IF unvisited = {} THEN {tour}
    ELSE LET key(c) == euclidean_distance(cs[current + 1], cs[c + 1])
             mins == {c \in unvisited : \A u \in unvisited : key(c) <= key(u)}
         IN UNION {NNLoopAnyOrder(cs, Append(tour, c), unvisited \ {c}, c) : c \in mins}

\* -------------------------------------------------------------- two_opt
\* faulty variant: the outer loop starts at position 0
IStartZero(len) == 0

\* for i in range(1, len(best_route) - 2)
IStart(len) == 1
IStop(len) == len - 2
\* for j in range(i + 1, len(best_route) - 1)
JStart(ii) == ii + 1
JStop(len) == len - 1

RECURSIVE PairsFrom(_, _, _)
\* the pairs (i, j) the two nested for loops visit from (ii, jj) on, in order
PairsFrom(len, ii, jj) ==
    IF ii >= IStop(len) THEN << >>
    ELSE IF jj >= JStop(len) THEN PairsFrom(len, ii + 1, JStart(ii + 1))
    ELSE <<(<<ii, jj>>)>> \o PairsFrom(len, ii, jj + 1)

LoopPairs(len) == PairsFrom(len, IStart(len), JStart(IStart(len)))

\* if j - i == 1: continue
Adjacent(ii, jj) == jj - ii = 1

\* new_route = best_route[:]; new_route[i:j] = reversed(best_route[i:j])
new_route(br, ii, jj) ==
    [p \in 1 .. Len(br) |->
        IF ii <= p - 1 /\ p - 1 < jj THEN br[(ii + jj - 1 - (p - 1)) + 1] ELSE br[p]]

\* faulty variant: > instead of <
AcceptsWorse(new_distance, best) == FloatLt(best, new_distance)

\* faulty variant: <= instead of <
AcceptsEqual(new_distance, best) == ~FloatLt(best, new_distance)

\* if new_distance < best_distance
Accepts(new_distance, best) == FloatLt(new_distance, best)

\* faulty variant: improved = True is forgotten when a move is accepted
CandidateNoMark(st, ii, jj, cs) ==
    IF jj - ii = 1 THEN st
    ELSE LET nr == [p \in 1 .. Len(st.best_route) |->
                       IF ii <= p - 1 /\ p - 1 < jj
                       THEN st.best_route[(ii + jj - 1 - (p - 1)) + 1]
                       ELSE st.best_route[p]]
             nd == total_route_distance(nr, cs)
         IN IF FloatLt(nd, st.best_distance)
            THEN [best_route |-> nr, best_distance |-> nd, improved |-> st.improved]
            ELSE st

\* the body of the inner for loop on the locals st = [best_route,
\* best_distance, improved]
Candidate(st, ii, jj, cs) ==
    IF Adjacent(ii, jj) THEN st
    ELSE LET nr == new_route(st.best_route, ii, jj)
             nd == total_route_distance(nr, cs)
         IN IF Accepts(nd, st.best_distance)
            THEN [best_route |-> nr, best_distance |-> nd, improved |-> TRUE]
            ELSE st

RECURSIVE Scan(_, _, _)
\* the two for loops, over the pairs ps
Scan(st, ps, cs) ==
    IF ps = << >> THEN st
    ELSE Scan(Candidate(st, Head(ps)[1], Head(ps)[2], cs), Tail(ps), cs)

RECURSIVE WhileImproved(_, _)
\* while improved: improved = False; <the for loops>
WhileImproved(st, cs) ==
    IF ~st.improved THEN st
    ELSE WhileImproved(
             Scan([st EXCEPT !.improved = FALSE], LoopPairs(Len(st.best_route)), cs), cs)

two_opt(r, cs) ==
    WhileImproved([best_route |-> r,
                   best_distance |-> total_route_distance(r, cs),
                   improved |-> TRUE], cs).best_route

\* ------------------------------------------------------------ solve_tsp
\* faulty variant: only the empty input is trivial
IsEmpty(n) == n < 1

\* if n <= 1
IsTrivial(n) == n <= 1

\* faulty variant: every index is a start
starts_to_try_uncapped(n) == n

\* starts_to_try = min(5, n)
starts_to_try(n) == IF StartsCap <= n THEN StartsCap ELSE n

\* start_indices = list(range(n)); random.shuffle(start_indices): any order
Shuffles(n) == PermsOf[n]

\* faulty variant: <= instead of <, so the last of equally short routes is kept
BetterOrEqual(d, best) == ~FloatLt(best, d)

\* if dist < best_distance
Better(d, best) == FloatLt(d, best)

NoResult == <<None, Inf>>

RECURSIVE Ascending(_, _)
\* the sequences of n distinct points, in lexicographic order, from Pool[lo] on
Ascending(n, lo) ==
    IF n = 0 THEN {<< >>}
    ELSE UNION {{<<Pool[q]>> \o t : t \in Ascending(n - 1, q + 1)} :
                   q \in lo .. NPts - n + 1}

\* The city sequences tried: every sequence of up to MaxFreeN points
\* (duplicates included), and the sequences of up to MaxN distinct points
\* listed in lexicographic order.
Inputs ==
    UNION {[1 .. n -> Grid] : n \in 0 .. MaxFreeN}
        \cup UNION {Ascending(n, 1) : n \in MaxFreeN + 1 .. MaxN}

OptIdle ==
    /\ o_input = None /\ o_route = None /\ o_best_route = None
    /\ o_best_distance = Inf /\ improved = FALSE /\ i = 0 /\ j = 0 /\ scans = 0

SolveIdle ==
    /\ start_indices = None /\ k = 0 /\ route = None /\ best_route = None
    /\ best_distance = Inf /\ result = NoResult /\ nn_route = None
    /\ calls = [nn |-> 0, two_opt |-> 0]

\* solve_tsp(cities) has just been called
Init ==
    /\ cities \in Inputs
    /\ pc = "solve"
    /\ SolveIdle
    /\ OptIdle

\* lines 80-82: return list(range(n)), 0.0
SolveTrivial ==
    /\ pc = "solve"
    /\ IsTrivial(Len(cities))
    /\ result' = <<ListRange(Len(cities)), 0>>
    /\ pc' = "done"
    /\ UNCHANGED <<cities, start_indices, k, route, best_route, best_distance, calls,
                   nn_route, optVars>>

\* lines 85-91: the initial best and the shuffled, cut start indices
SolveShuffle ==
    /\ pc = "solve"
    /\ ~IsTrivial(Len(cities))
    /\ best_route' = None
    /\ best_distance' = Inf
    /\ \E sh \in Shuffles(Len(cities)) :
           start_indices' = SubSeq(sh, 1, starts_to_try(Len(cities)))
    /\ k' = 0
    /\ pc' = "for"
    /\ UNCHANGED <<cities, route, result, calls, nn_route, optVars>>

\* lines 93-94: the next start, and route = nearest_neighbor_tour(cities, start)
SolveCallNN ==
    /\ pc = "for"
    /\ k < Len(start_indices)
    /\ route' = nearest_neighbor_tour(cities, start_indices[k + 1])
    /\ nn_route' = route'
    /\ calls' = [calls EXCEPT !.nn = @ + 1]
    /\ pc' = "nn_done"
    /\ UNCHANGED <<cities, start_indices, k, best_route, best_distance, result, optVars>>

\* line 95: route = two_opt(route, cities)
SolveCallTwoOpt ==
    /\ pc = "nn_done"
    /\ route' = two_opt(route, cities)
    /\ calls' = [calls EXCEPT !.two_opt = @ + 1]
    /\ pc' = "opt_done"
    /\ UNCHANGED <<cities, start_indices, k, best_route, best_distance, result,
                   nn_route, optVars>>

\* lines 96-99: dist, and the comparison with the best so far
SolveCompare ==
    /\ pc = "opt_done"
    /\ LET dist == total_route_distance(route, cities)
       IN IF Better(dist, best_distance)
          THEN best_distance' = dist /\ best_route' = route
          ELSE UNCHANGED <<best_distance, best_route>>
    /\ k' = k + 1
    /\ pc' = "for"
    /\ UNCHANGED <<cities, start_indices, route, result, calls, nn_route, optVars>>

\* line 101: return best_route, best_distance
SolveReturn ==
    /\ pc = "for"
    /\ k >= Len(start_indices)
    /\ result' = <<best_route, best_distance>>
    /\ pc' = "done"
    /\ UNCHANGED <<cities, start_indices, k, route, best_route, best_distance, calls,
                   nn_route, optVars>>

Next ==
    \/ SolveTrivial
    \/ SolveShuffle
    \/ SolveCallNN
    \/ SolveCallTwoOpt
    \/ SolveCompare
    \/ SolveReturn

Spec == Init /\ [][Next]_vars

UnitSquare == <<(<<0, 0>>), (<<1, 0>>), (<<1, 1>>), (<<0, 1>>)>>

\* solve_tsp has just been called on the unit square, or on its first corners
InitSquare ==
    /\ cities \in {SubSeq(UnitSquare, 1, n) : n \in 0 .. Len(UnitSquare)}
    /\ pc = "solve"
    /\ SolveIdle
    /\ OptIdle

SpecSquare == InitSquare /\ [][Next]_vars

\* ------------------------------------------------- two_opt, step by step
\* the identity route and its reverse, each from every starting position
Rotations(n) ==
    {[p \in 1 .. n |-> (r + p - 1) % n] : r \in 0 .. n - 1}
        \cup {[p \in 1 .. n |-> (r + n - p) % n] : r \in 0 .. n - 1}

\* two_opt(route, cities) has just been called, with any route over the cities
InitOpt ==
    /\ cities \in Inputs
    /\ pc = "two_opt"
    /\ o_input \in PermsOf[Len(cities)]
    /\ o_route = o_input
    /\ o_best_route = None /\ o_best_distance = Inf /\ improved = FALSE
    /\ i = 0 /\ j = 0 /\ scans = 0
    /\ SolveIdle

\* lines 53-55
OptEnter ==
    /\ pc = "two_opt"
    /\ improved' = TRUE
    /\ o_best_route' = o_route
    /\ o_best_distance' = total_route_distance(o_route, cities)
    /\ pc' = "opt_while"
    /\ UNCHANGED <<cities, o_input, o_route, i, j, scans, solveVars>>

\* lines 57-60: the while test holds; improved = False and the for loops
\* start (line 70 follows at once when they have nothing to visit)
OptWhile ==
    /\ pc = "opt_while"
    /\ improved
    /\ improved' = FALSE
    /\ scans' = scans + 1
    /\ LET ps == LoopPairs(Len(o_best_route))
       IN IF ps = << >>
          THEN /\ o_route' = o_best_route
               /\ pc' = "opt_while"
               /\ UNCHANGED <<i, j>>
          ELSE /\ i' = Head(ps)[1]
               /\ j' = Head(ps)[2]
               /\ pc' = "opt_for"
               /\ UNCHANGED o_route
    /\ UNCHANGED <<cities, o_input, o_best_route, o_best_distance, solveVars>>

\* lines 61-69 for the pair (i, j), then the next pair, or line 70 after the last
OptCandidate ==
    /\ pc = "opt_for"
    /\ LET st == Candidate([best_route |-> o_best_route,
                            best_distance |-> o_best_distance,
                            improved |-> improved], i, j, cities)
           rest == PairsFrom(Len(o_best_route), i, j + 1)
       IN /\ o_best_route' = st.best_route
          /\ o_best_distance' = st.best_distance
          /\ improved' = st.improved
          /\ IF rest = << >>
             THEN /\ o_route' = st.best_route
                  /\ pc' = "opt_while"
                  /\ UNCHANGED <<i, j>>
             ELSE /\ i' = Head(rest)[1]
                  /\ j' = Head(rest)[2]
                  /\ pc' = "opt_for"
                  /\ UNCHANGED o_route
    /\ UNCHANGED <<cities, o_input, scans, solveVars>>

\* line 72: the while test fails; return best_route
OptReturn ==
    /\ pc = "opt_while"
    /\ ~improved
    /\ pc' = "return"
    /\ UNCHANGED <<cities, optVars, solveVars>>

NextOpt ==
    \/ OptEnter
    \/ OptWhile
    \/ OptCandidate
    \/ OptReturn

SpecTwoOpt == InitOpt /\ [][NextOpt]_vars

\* two_opt called with the cities in their order, or in the reverse order,
\* from any of them on
InitOptRotation ==
    /\ InitOpt
    /\ o_input \in Rotations(Len(cities))

\* two_opt has no suspension point: once called it runs on
SpecTwoOptFair == InitOptRotation /\ [][NextOpt]_vars /\ WF_vars(NextOpt)

\* The step-by-step two_opt returns what the operator two_opt computes.
OptAgree == pc = "return" => o_best_route = two_opt(o_input, cities)

\* ======================================================= claims on solve_tsp
\* what one iteration of the for loop computes for the start s
RunFrom(s) == two_opt(nearest_neighbor_tour(cities, s), cities)
LengthFrom(s) == total_route_distance(RunFrom(s), cities)

RECURSIVE LengthsFrom(_)
\* the lengths computed from the starts si, in their order
LengthsFrom(si) ==
    IF si = << >> THEN << >> ELSE <<LengthFrom(Head(si))>> \o LengthsFrom(Tail(si))

\* C1: whatever the cities (none, one, duplicates) and the shuffled starts,
\* the tour solve_tsp returns has length n and holds every index 0..n-1
\* exactly once.
C1_Permutation == pc = "done" => IsPermutation(result[1], Len(cities))

\* five starts were tried, and two_opt rearranged the route that won
C1_Witness ==
    /\ pc = "done"
    /\ Len(cities) >= 5
    /\ calls.two_opt = StartsCap
    /\ result[1] # nearest_neighbor_tour(cities, result[1][1])
    /\ IsPermutation(result[1], Len(cities))

\* result is the pair computed from the first start whose length, among the
\* lengths len of the starts in their order, is minimal
FirstMinimalAmong(len) ==
    \E p \in 1 .. Len(len) :
        /\ \A q \in 1 .. Len(len) : len[p] <= len[q]
        /\ \A q \in 1 .. p - 1 : len[q] > len[p]
        /\ result = <<RunFrom(start_indices[p]), len[p]>>
        /\ \A q \in 1 .. Len(len) : result[2] <= len[q]

\* C2: for n >= 2 the returned pair is the route and length computed from the
\* first start, in the order tried, whose length is minimal among the sampled
\* starts; so the returned length is <= the length from every sampled start.
C2_FirstMinimal ==
    (pc = "done" /\ Len(cities) >= 2) =>
        FirstMinimalAmong(LengthsFrom(start_indices))

\* the best start is not the first one tried, and a later start ties with it
\* on another route
C2_Witness ==
    /\ pc = "done"
    /\ Len(cities) >= 2
    /\ \E p, q \in 1 .. Len(start_indices) :
           /\ 1 < p /\ p < q
           /\ result = <<RunFrom(start_indices[p]), LengthFrom(start_indices[p])>>
           /\ LengthFrom(start_indices[1]) > result[2]
           /\ LengthFrom(start_indices[q]) = result[2]
           /\ RunFrom(start_indices[q]) # result[1]

\* C5: for n >= 2 the construct-then-improve step runs for exactly min(5, n)
\* starts, pairwise distinct elements of 0..n-1: n of them when n < 5, 5 when
\* n >= 5.
C5_Starts ==
    LET n == Len(cities)
        m == IF n < 5 THEN n ELSE 5
    IN (n >= 2 /\ pc # "solve") =>
           /\ Len(start_indices) = m
           /\ \A p \in 1 .. m : start_indices[p] \in 0 .. n - 1
           /\ \A p, q \in 1 .. m : start_indices[p] = start_indices[q] => p = q
           /\ calls.nn <= m /\ calls.two_opt <= m
           /\ pc = "done" => (calls.nn = m /\ calls.two_opt = m /\ k = m)

C5_Witness ==
    /\ pc = "done"
    /\ Len(cities) = 6
    /\ Len(start_indices) = 5
    /\ calls = [nn |-> 5, two_opt |-> 5]

\* C6: on the unit square solve_tsp returns the perimeter, 4.0, whichever
\* starts are drawn in whichever order, and however nearest_neighbor_tour
\* resolves equal distances: from every corner it builds a perimeter tour,
\* which two_opt returns unchanged.
C6_UnitSquare ==
    cities = UnitSquare =>
        /\ pc = "done" => result[2] = 4 * Scale
        /\ pc = "nn_done" => total_route_distance(route, cities) = 4 * Scale
        /\ pc = "opt_done" => route = nn_route
        /\ \A s \in 0 .. 3 :
               \A t \in NNLoopAnyOrder(cities, <<s>>, InitUnvisited(4, s), s) :
                   /\ total_route_distance(t, cities) = 4 * Scale
                   /\ two_opt(t, cities) = t

C6_Witness ==
    /\ cities = UnitSquare
    /\ pc = "done"
    /\ calls.nn = 4
    /\ result[2] = 4 * Scale
    /\ Cardinality(NNLoopAnyOrder(cities, <<0>>, InitUnvisited(4, 0), 0)) > 1

\* C7: for no city solve_tsp returns ([], 0.0) and for one city ([0], 0.0),
\* drawing no start index and calling neither nearest_neighbor_tour nor
\* two_opt.
C7_Trivial ==
    (pc = "done" /\ Len(cities) <= 1) =>
        /\ result = <<(IF Len(cities) = 0 THEN << >> ELSE <<0>>), 0>>
        /\ start_indices = None
        /\ calls = [nn |-> 0, two_opt |-> 0]

C7_Witness ==
    /\ pc = "done"
    /\ Len(cities) = 1
    /\ result = <<(<<0>>), 0>>
    /\ calls.nn = 0

\* C8: the tour of nearest_neighbor_tour(cities, start) begins with start, and
\* each index appended after it is unvisited and nearest to the current city,
\* the lowest such index when several are equally near.
C8_NearestLowest ==
    pc = "nn_done" =>
        LET n == Len(cities)
            t == nn_route
            key(c, u) == euclidean_distance(cities[c + 1], cities[u + 1])
        IN /\ Len(t) = n
           /\ t[1] = start_indices[k + 1]
           /\ \A p \in 2 .. n :
                  LET unv == (0 .. n - 1) \ {t[q] : q \in 1 .. p - 1}
                  IN /\ t[p] \in unv
                     /\ \A u \in unv :
                            \/ key(t[p - 1], t[p]) < key(t[p - 1], u)
                            \/ key(t[p - 1], t[p]) = key(t[p - 1], u) /\ t[p] <= u

\* an equally near unvisited city of a higher index was passed over
C8_Witness ==
    /\ pc = "nn_done"
    /\ \E p \in 2 .. Len(cities) :
           \E u \in (0 .. Len(cities) - 1) \ {nn_route[q] : q \in 1 .. p} :
               /\ euclidean_distance(cities[nn_route[p - 1] + 1], cities[u + 1])
                      = euclidean_distance(cities[nn_route[p - 1] + 1],
                                           cities[nn_route[p] + 1])
               /\ cities[u + 1] # cities[nn_route[p] + 1]
               /\ u > nn_route[p]

\* ========================================================= claims on two_opt
\* a move changes best_route
Accepted == pc = "opt_for" /\ o_best_route' # o_best_route

\* C3: the route two_opt returns is no longer than the route it was given,
\* and best_distance never increases while two_opt runs.
C3_NoWorse ==
    /\ [](pc = "return" =>
             total_route_distance(o_best_route, cities)
                 <= total_route_distance(o_input, cities))
    /\ [][pc # "two_opt" => o_best_distance' <= o_best_distance]_vars

\* two scans improved the route
C3_Witness ==
    /\ pc = "return"
    /\ scans >= 3
    /\ total_route_distance(o_best_route, cities)
           < total_route_distance(o_input, cities)

\* C4: the route two_opt returns is a fixed point: two_opt applied to it
\* returns a route of the same length, no move of a further scan being
\* accepted.
C4_Idempotent ==
    pc = "return" =>
        /\ total_route_distance(two_opt(o_best_route, cities), cities)
               = total_route_distance(o_best_route, cities)
        /\ two_opt(o_best_route, cities) = o_best_route
        /\ LET ps == LoopPairs(Len(o_best_route))
           IN \A p \in 1 .. Len(ps) :
                  Adjacent(ps[p][1], ps[p][2])
                  \/ total_route_distance(new_route(o_best_route, ps[p][1], ps[p][2]),
                                          cities) >= o_best_distance

C4_Witness ==
    /\ pc = "return"
    /\ o_best_route # o_input
    /\ two_opt(o_input, cities) # o_input
    /\ two_opt(o_best_route, cities) = o_best_route

\* C9: two_opt terminates: every accepted move makes best_distance strictly
\* smaller, and eventually a scan accepts none and the function returns.
C9_Terminates ==
    /\ <>(pc = "return")
    /\ [][Accepted => o_best_distance' < o_best_distance]_vars

\* two_opt returned after a scan that accepted a move and a scan that did not
C9_Witness ==
    /\ pc = "return"
    /\ scans = 2
    /\ o_best_distance < total_route_distance(o_input, cities)

\* ---------------------------------------------- both functions together
InitAll == Init \/ InitOpt

NextAll == Next \/ NextOpt

SpecAll == InitAll /\ [][NextAll]_vars

\* C10: two_opt leaves the first and the last two positions of the route as
\* they were, so a route of up to 4 cities is returned as given, and the tour
\* solve_tsp returns begins with one of the starts it drew.
C10_Frame ==
    /\ pc = "return" =>
           LET len == Len(o_input)
           IN /\ Len(o_best_route) = len
              /\ \A p \in {0, len - 2, len - 1} :
                     (0 <= p /\ p < len) => o_best_route[p + 1] = o_input[p + 1]
              /\ len <= 4 => o_best_route = o_input
    /\ pc = "opt_done" =>
           LET len == Len(nn_route)
           IN /\ Len(route) = len
              /\ \A p \in {0, len - 2, len - 1} :
                     (0 <= p /\ p < len) => route[p + 1] = nn_route[p + 1]
              /\ len <= 4 => route = nn_route
    /\ (pc = "done" /\ Len(cities) >= 2) =>
           \E p \in 1 .. Len(start_indices) : result[1][1] = start_indices[p]

\* a move was made, inside the frame
C10_Witness ==
    /\ pc = "return"
    /\ Len(o_input) >= 5
    /\ o_best_route # o_input
    /\ o_best_route[1] = o_input[1]
    /\ o_best_route[Len(o_input)] = o_input[Len(o_input)]

====
